---- MODULE Spec2Model ----
(***************************************************************************)
(* SQLiteManager (api/src/config/database_manager.py) and the user and     *)
(* password routers that use it, over a model of the SQLite file they talk *)
(* to: committed content, one write transaction at a time, parameterized   *)
(* statements bound by position.                                           *)
(***************************************************************************)
EXTENDS Integers, Sequences, FiniteSets, TLC

----------------------------------------------------------------------------
(* Bounds of the model *)

MaxId == 2        \* identifiers of the rows single calls work on: 1..MaxId
MaxKeys == 2      \* longest ordered mapping given to a single call
MaxStored == 1    \* identifiers of the rows blocks and requests work on
MaxConns == 1     \* connection objects that exist at the same time

----------------------------------------------------------------------------
(* Python values. Scalars carry their type so that values of different     *)
(* types compare unequal instead of not comparing at all.                  *)

None == <<"none", 0>>
I(n) == <<"int", n>>
S(s) == <<"str", s>>
Dict(items) == <<"dict", items>>
List(items) == <<"list", items>>

\* Python truthiness: `not v` is true of None, "", 0 and empty containers
Truthy(v) ==
    CASE v[1] = "none" -> FALSE
      [] v[1] = "int"  -> v[2] # 0
      [] v[1] = "str"  -> v[2] # ""
      [] OTHER         -> Len(v[2]) > 0

IsDict(v) == v[1] = "dict"

----------------------------------------------------------------------------
(* Keyword arguments: an ordered mapping, a sequence of <<key, value>>      *)
(* pairs with distinct keys.                                               *)

HasKey(kwargs, key) == \E i \in 1..Len(kwargs) : kwargs[i][1] = key

\* the value part of kwargs.pop(key, default)
PopValue(kwargs, key, default) ==
    IF HasKey(kwargs, key)
    THEN kwargs[CHOOSE i \in 1..Len(kwargs) : kwargs[i][1] = key][2]
    ELSE default

\* kwargs after kwargs.pop(key, default)
PopRest(kwargs, key) == SelectSeq(kwargs, LAMBDA p : p[1] # key)

\* kwargs.keys()
Keys(m) == [i \in 1..Len(m) |-> m[i][1]]

\* the values in the opposite order to the keys
ValuesReversed(m) == [i \in 1..Len(m) |-> m[Len(m) + 1 - i][2]]

\* kwargs.values()
Values(m) == [i \in 1..Len(m) |-> m[i][2]]

----------------------------------------------------------------------------
(* The persisted schema the routers rely on (not created by the code):     *)
(* users(id, name, email), passwords(id, password_hash, user_id); id is    *)
(* the integer primary key, the other columns are typed and NOT NULL, as   *)
(* the User and Password records require.                                  *)

Tables == {"users", "passwords"}

Columns(t) ==
    IF t = "users" THEN <<"id", "name", "email">>
    ELSE <<"id", "password_hash", "user_id">>

ColType(t, col) ==
    IF col \in {"id", "user_id"} THEN "int" ELSE "str"

Range(s) == {s[i] : i \in 1..Len(s)}

ColIdx(t, col) == CHOOSE i \in 1..Len(Columns(t)) : Columns(t)[i] = col

Ids == 1..MaxId
Names == {"Alice", "Bob"}
Emails == {"a@x.com"}
Hashes == {"h1"}

ColDomain(t, col) ==
    CASE col = "id"            -> {I(n) : n \in Ids}
      [] col = "user_id"       -> {I(1)}
      [] col = "name"          -> {S(x) : x \in Names}
      [] col = "email"         -> {S(x) : x \in Emails}
      [] col = "password_hash" -> {S(x) : x \in Hashes}
      [] OTHER                 -> {I(1)}

RowsOf(t) ==
    {<<a, b, c>> : a \in ColDomain(t, Columns(t)[1]),
                   b \in ColDomain(t, Columns(t)[2]),
                   c \in ColDomain(t, Columns(t)[3])}

UniqueIds(rows) == \A r1, r2 \in rows : r1[1] = r2[1] => r1 = r2

Contents(t) == {rows \in SUBSET RowsOf(t) : UniqueIds(rows)}

----------------------------------------------------------------------------
(* The store: the database file and the one write transaction SQLite       *)
(* allows at a time. disk is the committed content, writer the connection   *)
(* holding the open write transaction (0: none), pending that transaction's *)
(* content (equal to disk when there is none).                             *)

NoWriter == 0

View(st, c) == IF st.writer = c THEN st.pending ELSE st.disk

\* sqlite3.Connection.rollback()
ConnRollback(st, c) ==
    IF st.writer = c
    THEN [st EXCEPT !.writer = NoWriter, !.pending = st.disk]
    ELSE st

\* sqlite3.Connection.commit()
ConnCommit(st, c) ==
    IF st.writer = c
    THEN [st EXCEPT !.writer = NoWriter, !.disk = st.pending]
    ELSE st

\* a successful INSERT/UPDATE/DELETE opens (or continues) c's transaction
ConnWrite(st, c, t, rows) ==
    [st EXCEPT !.writer = c, !.pending = [View(st, c) EXCEPT ![t] = rows]]

\* SQL `col = ?`: NULL equals nothing, values of different types differ
SqlEq(a, b) == a[1] # "none" /\ b[1] # "none" /\ a = b

\* the column each `?` of the statement stands for, in statement order
Placeholders(q) ==
    CASE q.verb = "SELECT" -> q.where
      [] q.verb = "INSERT" -> q.cols
      [] q.verb = "UPDATE" -> q.set \o q.where
      [] q.verb = "DELETE" -> q.where

ReferencedCols(q) ==
    CASE q.verb = "SELECT" -> (Range(q.cols) \ {"*"}) \cup Range(q.where)
      [] q.verb = "INSERT" -> Range(q.cols)
      [] q.verb = "UPDATE" -> Range(q.set) \cup Range(q.where)
      [] q.verb = "DELETE" -> Range(q.where)

\* WHERE a = ? <join> b = ? ...: the i-th condition is bound to params[off + i];
\* a statement with no WHERE clause takes every row
WhereHolds(t, row, q, params, off) ==
    LET cond(i) == SqlEq(row[ColIdx(t, q.where[i])], params[off + i])
    IN  IF Len(q.where) = 0 THEN TRUE
        ELSE IF q.join = "AND" THEN \A i \in 1..Len(q.where) : cond(i)
        ELSE \E i \in 1..Len(q.where) : cond(i)

Matched(t, rows, q, params, off) ==
    {r \in rows : WhereHolds(t, r, q, params, off)}

\* the value a statement binds to column col (NULL when it names no such column)
BoundTo(cols, params, col) ==
    IF col \in Range(cols)
    THEN params[CHOOSE i \in 1..Len(cols) : cols[i] = col]
    ELSE None

MaxOf(ns) == CHOOSE n \in ns : \A m \in ns : m <= n

\* the rowid SQLite gives a row inserted without one
NextRowId(rows) == IF rows = {} THEN 1 ELSE MaxOf({r[1][2] : r \in rows}) + 1

TypeOk(t, col, v) == v[1] = ColType(t, col)

RECURSIVE OrderFrom(_, _)
OrderFrom(rows, n) ==
    IF rows = {} THEN <<>>
    ELSE LET here == {r \in rows : r[1][2] = n}
         IN  (IF here = {} THEN <<>> ELSE <<CHOOSE r \in here : TRUE>>)
             \o OrderFrom(rows \ here, n + 1)

\* a table scan returns rows in rowid order
OrderById(rows) == OrderFrom(rows, 1)

Project(t, cols, row) ==
    LET expand(col) == IF col = "*" THEN row ELSE <<row[ColIdx(t, col)]>>
        F[i \in 0..Len(cols)] == IF i = 0 THEN <<>> ELSE F[i - 1] \o expand(cols[i])
    IN  F[Len(cols)]

Rejected(st, kind, msg) ==
    [ok |-> FALSE, err |-> <<kind, msg>>, st |-> st, rows |-> <<>>,
     rowcount |-> -1, lastrowid |-> None]

Done(st, rows, rowcount, lastrowid) ==
    [ok |-> TRUE, err |-> None, st |-> st, rows |-> rows,
     rowcount |-> rowcount, lastrowid |-> lastrowid]

ExecInsert(st, c, q, params) ==
    LET t == q.table
        rows == View(st, c)[t]
        given == BoundTo(q.cols, params, "id")
        newId == IF given = None THEN I(NextRowId(rows)) ELSE given
        new == [i \in 1..Len(Columns(t)) |->
                  IF i = 1 THEN newId ELSE BoundTo(q.cols, params, Columns(t)[i])]
    IN  IF \E i \in 2..Len(new) : new[i] = None
        THEN Rejected(st, "IntegrityError", "NOT NULL constraint failed")
        ELSE IF \E i \in 1..Len(new) : ~TypeOk(t, Columns(t)[i], new[i])
        THEN Rejected(st, "IntegrityError", "datatype mismatch")
        ELSE IF \E r \in rows : r[1] = newId
        THEN Rejected(st, "IntegrityError", "UNIQUE constraint failed")
        ELSE Done(ConnWrite(st, c, t, rows \cup {new}), <<>>, 1, newId)

ExecUpdate(st, c, q, params) ==
    LET t == q.table
        rows == View(st, c)[t]
        hit == Matched(t, rows, q, params, Len(q.set))
        NewRow(r) == [i \in 1..Len(r) |->
                        IF Columns(t)[i] \in Range(q.set)
                        THEN BoundTo(q.set, params, Columns(t)[i]) ELSE r[i]]
        after == (rows \ hit) \cup {NewRow(r) : r \in hit}
    IN  IF hit # {} /\ \E i \in 1..Len(q.set) : params[i] = None
        THEN Rejected(st, "IntegrityError", "NOT NULL constraint failed")
        ELSE IF hit # {} /\ \E i \in 1..Len(q.set) : ~TypeOk(t, q.set[i], params[i])
        THEN Rejected(st, "IntegrityError", "datatype mismatch")
        ELSE IF Cardinality({r[1] : r \in after}) # Cardinality(rows)
        THEN Rejected(st, "IntegrityError", "UNIQUE constraint failed")
        ELSE Done(ConnWrite(st, c, t, after), <<>>, Cardinality(hit), None)

ExecDelete(st, c, q, params) ==
    LET t == q.table
        rows == View(st, c)[t]
        hit == Matched(t, rows, q, params, 0)
    IN  Done(ConnWrite(st, c, t, rows \ hit), <<>>, Cardinality(hit), None)

ExecSelect(st, c, q, params) ==
    LET t == q.table
        hit == OrderById(Matched(t, View(st, c)[t], q, params, 0))
    IN  Done(st, [i \in 1..Len(hit) |-> Project(t, q.cols, hit[i])], -1, None)

\* sqlite3.Cursor.execute(query, params) on connection c. fault: the store
\* fails the statement for a reason of its own (I/O failure).
Execute(st, c, q, params, fault) ==
    IF fault
    THEN Rejected(st, "OperationalError", "disk I/O error")
    ELSE IF q.table \notin Tables
    THEN Rejected(st, "OperationalError", "no such table")
    ELSE IF \E col \in ReferencedCols(q) : col \notin Range(Columns(q.table))
    THEN Rejected(st, "OperationalError", "no such column")
    ELSE IF Len(params) # Len(Placeholders(q))
    THEN Rejected(st, "ProgrammingError", "Incorrect number of bindings supplied")
    ELSE IF q.verb # "SELECT" /\ st.writer \notin {NoWriter, c}
    THEN Rejected(st, "OperationalError", "database is locked")
    ELSE CASE q.verb = "SELECT" -> ExecSelect(st, c, q, params)
           [] q.verb = "INSERT" -> ExecInsert(st, c, q, params)
           [] q.verb = "UPDATE" -> ExecUpdate(st, c, q, params)
           [] q.verb = "DELETE" -> ExecDelete(st, c, q, params)

----------------------------------------------------------------------------
(* SQLiteManager. Each method takes the store, the connection, the keyword  *)
(* arguments of the call and whether the store fails the statement, and     *)
(* yields the store afterwards, what the call returned or raised, the        *)
(* statement it built with its parameters, and the driver calls it made.    *)

NoQuery ==
    [verb |-> "", table |-> "", cols |-> <<>>, set |-> <<>>, where |-> <<>>,
     join |-> ""]

\* the clauses joined by " OR "
WhereJoinOr == "OR"

\* where_clauses are joined by " AND "
WhereJoin == "AND"

\* the check for data dropped
NoDataOff(data) == FALSE

\* `if not kwargs`: no data left to insert
NoData(data) == Len(data) = 0

\* the safety gate dropped
NoFiltersOff(filters) == FALSE

\* `if not kwargs`: no filter left for the WHERE clause
NoFilters(filters) == Len(filters) = 0

ValueError(msg) == <<"ValueError", msg>>

\* a method that raises before it reaches the driver
Fails(st, err) ==
    [st |-> st, raised |-> TRUE, err |-> err, value |-> None, query |-> NoQuery,
     params |-> <<>>, calls |-> <<>>, storeErr |-> None]

\* the error wrapped in a new one
ReraiseWrapped(e) == <<"Exception", e>>

\* `raise e` in an except clause
Reraise(e) == e

\* the except clause without its rollback
OnStoreErrorNoRollback(st, c, r, q, params) ==
    [st |-> r.st, raised |-> TRUE, err |-> Reraise(r.err),
     value |-> None, query |-> q, params |-> params,
     calls |-> <<"execute">>, storeErr |-> r.err]

\* except Exception as e: self.conn.rollback(); raise e
OnStoreError(st, c, r, q, params) ==
    [st |-> ConnRollback(r.st, c), raised |-> TRUE, err |-> Reraise(r.err),
     value |-> None, query |-> q, params |-> params,
     calls |-> <<"execute", "rollback">>, storeErr |-> r.err]

Returns(st, value, q, params, calls) ==
    [st |-> st, raised |-> FALSE, err |-> None, value |-> value, query |-> q,
     params |-> params, calls |-> calls, storeErr |-> None]

DefaultOptions == List(<<"*">>)

select(st, c, kwargs, fault) ==
    LET table == PopValue(kwargs, "table", None)
        options == PopValue(kwargs, "options", DefaultOptions)
        filters == PopRest(PopRest(kwargs, "table"), "options")
    IN  IF ~Truthy(table) THEN Fails(st, ValueError("table is required"))
        ELSE
        LET q == [verb |-> "SELECT", table |-> table[2], cols |-> options[2],
                  set |-> <<>>, where |-> Keys(filters), join |-> WhereJoin]
            params == Values(filters)
            r == Execute(st, c, q, params, fault)
        IN  IF r.ok
            THEN Returns(r.st, r.rows, q, params, <<"execute", "fetchall">>)
            ELSE [st |-> r.st, raised |-> TRUE, err |-> r.err, value |-> None,
                  query |-> q, params |-> params, calls |-> <<"execute">>,
                  storeErr |-> r.err]

insert(st, c, kwargs, fault) ==
    LET table == PopValue(kwargs, "table", None)
        data == PopRest(kwargs, "table")
    IN  IF ~Truthy(table) THEN Fails(st, ValueError("table is required"))
        ELSE IF NoData(data) THEN Fails(st, ValueError("no data to insert"))
        ELSE
        LET q == [verb |-> "INSERT", table |-> table[2], cols |-> Keys(data),
                  set |-> <<>>, where |-> <<>>, join |-> ""]
            params == Values(data)
            r == Execute(st, c, q, params, fault)
        IN  IF r.ok
            THEN Returns(r.st, r.lastrowid, q, params, <<"execute">>)
            ELSE OnStoreError(st, c, r, q, params)

\* the WHERE values ahead of the SET values
UpdateParamsSwapped(data, filters) == Values(filters) \o Values(data)

\* params = tuple(list(data_to_set.values()) + list(kwargs.values()))
UpdateParams(data, filters) == Values(data) \o Values(filters)

update(st, c, kwargs, fault) ==
    LET table == PopValue(kwargs, "table", None)
        data_to_set == PopValue(kwargs, "data", None)
        filters == PopRest(PopRest(kwargs, "table"), "data")
    IN  IF ~Truthy(table) THEN Fails(st, ValueError("table is required"))
        ELSE IF ~Truthy(data_to_set) \/ ~IsDict(data_to_set)
        THEN Fails(st, ValueError("data (a dict) is required"))
        ELSE IF NoFilters(filters)
        THEN Fails(st, ValueError("UPDATE without WHERE is not allowed"))
        ELSE
        LET q == [verb |-> "UPDATE", table |-> table[2], cols |-> <<>>,
                  set |-> Keys(data_to_set[2]), where |-> Keys(filters),
                  join |-> WhereJoin]
            params == UpdateParams(data_to_set[2], filters)
            r == Execute(st, c, q, params, fault)
        IN  IF r.ok
            THEN Returns(r.st, I(r.rowcount), q, params, <<"execute">>)
            ELSE OnStoreError(st, c, r, q, params)

delete(st, c, kwargs, fault) ==
    LET table == PopValue(kwargs, "table", None)
        filters == PopRest(kwargs, "table")
    IN  IF ~Truthy(table) THEN Fails(st, ValueError("table is required"))
        ELSE IF NoFilters(filters)
        THEN Fails(st, ValueError("DELETE without WHERE is not allowed"))
        ELSE
        LET q == [verb |-> "DELETE", table |-> table[2], cols |-> <<>>,
                  set |-> <<>>, where |-> Keys(filters), join |-> WhereJoin]
            params == Values(filters)
            r == Execute(st, c, q, params, fault)
        IN  IF r.ok
            THEN Returns(r.st, I(r.rowcount), q, params, <<"execute">>)
            ELSE OnStoreError(st, c, r, q, params)

\* __exit__ that only commits
ExitCallsCommitOnly(raising) == <<"commit">>

\* __exit__(exc_type, ...): raising says whether the block raised
ExitCalls(raising) == IF raising THEN <<"rollback", "commit">> ELSE <<"commit">>

RECURSIVE Apply(_, _, _)
Apply(st, c, calls) ==
    IF calls = <<>> THEN st
    ELSE Apply(IF Head(calls) = "rollback" THEN ConnRollback(st, c)
               ELSE ConnCommit(st, c), c, Tail(calls))

exit(st, c, raising) == Apply(st, c, ExitCalls(raising))

----------------------------------------------------------------------------
(* The routers. A response is what the web framework sends for what the     *)
(* handler returned or raised.                                             *)

Response(status, body) == [status |-> status, body |-> body]

\* User(id=result[0], name=result[1], email=result[2])
User(result) == [id |-> result[1], name |-> result[2], email |-> result[3]]

\* Password(id=result[0], password_hash=result[1], user_id=result[2])
Password(result) ==
    [id |-> result[1], password_hash |-> result[2], user_id |-> result[3]]

Record(table, result) == IF table = "users" THEN User(result) ELSE Password(result)

Kw(key, value) == <<key, value>>

\* `except Exception` in place of `except IndexError`
GetByIdOutcomeCatchAll(table, r) ==
    IF r.raised \/ Len(r.value) = 0
    THEN [raising |-> TRUE, response |-> Response(404, "not found")]
    ELSE [raising |-> FALSE, response |-> Response(200, Record(table, r.value[1]))]

\* the body of get_user / get_password: what leaves the `with` block.
\* r is what db.select(table=<table>, id=<id>) did.
GetByIdOutcome(table, r) ==
    IF r.raised THEN [raising |-> TRUE, response |-> Response(500, r.err)]
    ELSE IF Len(r.value) = 0
    THEN [raising |-> TRUE,
          response |-> Response(404, IF table = "users" THEN "User not found"
                                                         ELSE "password not found")]
    ELSE [raising |-> FALSE, response |-> Response(200, Record(table, r.value[1]))]

\* the body of get_users / get_passwords
ListOutcome(table, r) ==
    IF r.raised THEN [raising |-> TRUE, response |-> Response(500, r.err)]
    ELSE [raising |-> FALSE,
          response |-> Response(200, [i \in 1..Len(r.value) |-> Record(table, r.value[i])])]

----------------------------------------------------------------------------
(* State *)

VARIABLES
    disk,      \* committed content of the database file: table -> set of rows
    writer,    \* the connection holding the open write transaction, or NoWriter
    pending,   \* content as that transaction sees it (disk when there is none)
    pc,        \* per connection object: "free", "block", "raising", "exited"
    open,      \* the connection objects whose sqlite3 connection is open
    last,      \* what the latest operation was and how it ended
    call       \* one call in full detail (single-call specifications)

vars == <<disk, writer, pending, pc, open, last, call>>

Conns == 1..MaxConns

St == [disk |-> disk, writer |-> writer, pending |-> pending]

SetStore(st) ==
    /\ disk' = st.disk
    /\ writer' = st.writer
    /\ pending' = st.pending

\* every identifier the store holds is within the model's bound
InBounds(st, ids) ==
    \A t \in Tables : \A r \in st.disk[t] \cup st.pending[t] : r[1][2] \in ids

\* sqlite3.connect has opened c's connection and nothing has closed it
IsOpen(c) == c \in open

NoCall == [op |-> "none"]

NoLast ==
    [conn |-> 0, op |-> "none", raised |-> FALSE, err |-> None,
     storeErr |-> None, calls |-> <<>>, dirty |-> FALSE, nrows |-> -1,
     key |-> 0, response |-> Response(0, None)]

\* the keys a method removes from its keyword arguments before it reads the rest
ControlKeys(op) ==
    CASE op = "select" -> {"table", "options"}
      [] op = "update" -> {"table", "data"}
      [] OTHER         -> {"table"}

\* what is left of the keyword arguments once the control keys are removed
Rest(op, kwargs) == SelectSeq(kwargs, LAMBDA p : p[1] \notin ControlKeys(op))

\* the `data` argument is a non-empty dict
DataOk(kwargs) ==
    LET d == PopValue(kwargs, "data", None) IN Truthy(d) /\ IsDict(d)

\* c holds a transaction with writes not yet committed
Dirty(st, c) == st.writer = c /\ st.pending # st.disk

\* the record of a manager call with result r
Called(c, op, kwargs, r) ==
    [conn |-> c, op |-> op, raised |-> r.raised, err |-> r.err,
     storeErr |-> r.storeErr, calls |-> r.calls, dirty |-> Dirty(St, c),
     nrows |-> IF r.query.verb = "SELECT" /\ ~r.raised THEN Len(r.value) ELSE -1,
     key |-> 0, response |-> Response(0, None)]

----------------------------------------------------------------------------
(* Inputs *)

\* the mapping that gives the columns cs, in that order, the values of row
MapOf(t, cs, row) == [i \in 1..Len(cs) |-> Kw(cs[i], row[ColIdx(t, cs[i])])]

\* sequences of distinct columns of t, of length 1..n
ColSeqs(t, n) ==
    {cs \in UNION {[1..k -> Range(Columns(t))] : k \in 1..n} :
        \A i, j \in 1..Len(cs) : cs[i] = cs[j] => i = j}

UnknownCol == <<Kw("nosuch", I(1))>>

\* every ordered mapping over at most n columns of t, and one naming no column
OrdMaps(t, n) ==
    {MapOf(t, cs, row) : cs \in ColSeqs(t, n), row \in RowsOf(t)} \cup {UnknownCol}

TableArgs == {None, S(""), S("users"), S("passwords"), S("nosuch")}

\* table=None is what the method sees when the argument is absent
TableKw(t) == IF t = None THEN <<>> ELSE <<Kw("table", t)>>

OptionArgs == {<<>>, <<Kw("options", List(<<"id">>))>>,
               <<Kw("options", List(<<"name", "id">>))>>}

\* rows of t, whole, without the id, and without a required column
RowMaps(t) ==
    {MapOf(t, cs, row) : row \in RowsOf(t),
        cs \in {Columns(t), Tail(Columns(t)), <<Columns(t)[2]>>,
                <<Columns(t)[3], Columns(t)[2], "id">>}}

OneColMaps(t) ==
    {MapOf(t, <<col>>, row) : row \in RowsOf(t), col \in {"id", Columns(t)[2]}}

DataArgs(t) ==
    {<<>>, <<Kw("data", Dict(<<>>))>>, <<Kw("data", S("x"))>>}
        \cup {<<Kw("data", Dict(m))>> : m \in OneColMaps(t)}

\* arguments of single calls
SelectArgs ==
    {TableKw(t) \o o \o f : t \in TableArgs, o \in OptionArgs,
        f \in {<<>>, <<Kw("name", None)>>} \cup OrdMaps("users", MaxKeys)}

InsertArgs ==
    {TableKw(t) \o d : t \in TableArgs, d \in {<<>>, UnknownCol} \cup RowMaps("users")}

UpdateArgs ==
    {TableKw(t) \o d \o f : t \in TableArgs, d \in DataArgs("users"),
        f \in {<<>>, UnknownCol} \cup OneColMaps("users")}

\* delete removes only `table`: a `data` argument is one more filter
DeleteArgs ==
    {TableKw(t) \o f : t \in TableArgs,
        f \in {<<>>, UnknownCol, <<Kw("data", Dict(UnknownCol))>>}
                \cup OneColMaps("users")}

\* arguments of the statements of a block: the users table by id
StoredIds == 1..MaxStored

StoredRows == {row \in RowsOf("users") : row[1][2] \in StoredIds}

ById == {MapOf("users", <<"id">>, row) : row \in StoredRows}

BlockSelectArgs == {<<Kw("table", S("users"))>> \o f : f \in {<<>>} \cup ById}

BlockInsertArgs ==
    {<<Kw("table", S("users"))>> \o MapOf("users", cs, row) : row \in StoredRows,
        cs \in {Columns("users"), Tail(Columns("users"))}}
    \cup {<<Kw("table", S("users"))>>}

BlockUpdateArgs ==
    {<<Kw("table", S("users")), Kw("data", Dict(MapOf("users", <<"name">>, row)))>> \o f :
        row \in StoredRows, f \in {<<>>} \cup ById}

BlockDeleteArgs ==
    {<<Kw("table", S("users"))>> \o f : f \in {<<>>} \cup ById}

----------------------------------------------------------------------------
(* Actions: blocks `with SQLiteManager(db) as db: ...` whose body is a       *)
(* sequence of manager calls, and the routers' request handlers            *)

\* the file as a request finds it: any users table, one stored password
InitialDisks ==
    {[t \in Tables |-> IF t = "users" THEN u ELSE {<<I(1), S("h1"), I(1)>>}] :
        u \in Contents("users")}

Init ==
    /\ disk \in {d \in InitialDisks : \A r \in d["users"] : r[1][2] \in StoredIds}
    /\ pending = disk
    /\ writer = NoWriter
    /\ pc = [c \in Conns |-> "free"]
    /\ open = {}
    /\ last = NoLast
    /\ call = NoCall

\* db_manager(database).__enter__(): a new connection object
Enter(c) ==
    /\ pc[c] = "free"
    /\ pc' = [pc EXCEPT ![c] = "block"]
    /\ open' = open \cup {c}
    /\ last' = [NoLast EXCEPT !.conn = c, !.op = "enter"]
    /\ UNCHANGED <<disk, writer, pending, call>>

\* one manager call in the body of c's block; an error the body does not
\* catch leaves the block
Perform(c, op, kwargs, r, caught) ==
    /\ pc[c] = "block"
    /\ InBounds(r.st, StoredIds)
    /\ SetStore(r.st)
    /\ pc' = [pc EXCEPT ![c] = IF r.raised /\ ~caught THEN "raising" ELSE "block"]
    /\ last' = Called(c, op, kwargs, r)
    /\ UNCHANGED <<open, call>>

\* whether the body catches what a call raises (nothing to catch otherwise)
Catches(r) == IF r.raised THEN BOOLEAN ELSE {TRUE}

Select(c) ==
    \E kwargs \in BlockSelectArgs, fault \in BOOLEAN :
        LET r == select(St, c, kwargs, fault)
        IN  \E caught \in Catches(r) : Perform(c, "select", kwargs, r, caught)

Insert(c) ==
    \E kwargs \in BlockInsertArgs, fault \in BOOLEAN :
        LET r == insert(St, c, kwargs, fault)
        IN  \E caught \in Catches(r) : Perform(c, "insert", kwargs, r, caught)

Update(c) ==
    \E kwargs \in BlockUpdateArgs, fault \in BOOLEAN :
        LET r == update(St, c, kwargs, fault)
        IN  \E caught \in Catches(r) : Perform(c, "update", kwargs, r, caught)

Delete(c) ==
    \E kwargs \in BlockDeleteArgs, fault \in BOOLEAN :
        LET r == delete(St, c, kwargs, fault)
        IN  \E caught \in Catches(r) : Perform(c, "delete", kwargs, r, caught)

\* the body of the block raises an error of its own
Raise(c) ==
    /\ pc[c] = "block"
    /\ pc' = [pc EXCEPT ![c] = "raising"]
    /\ last' = [NoLast EXCEPT !.conn = c, !.op = "raise", !.raised = TRUE,
                              !.dirty = Dirty(St, c)]
    /\ UNCHANGED <<disk, writer, pending, open, call>>

\* __exit__: the block is left, normally or by an exception
Exit(c) ==
    /\ pc[c] \in {"block", "raising"}
    /\ SetStore(exit(St, c, pc[c] = "raising"))
    /\ pc' = [pc EXCEPT ![c] = "exited"]
    /\ last' = [NoLast EXCEPT !.conn = c, !.op = "exit",
                              !.raised = (pc[c] = "raising"),
                              !.calls = ExitCalls(pc[c] = "raising"),
                              !.dirty = Dirty(St, c)]
    /\ UNCHANGED <<open, call>>

\* the interpreter finalizes a connection object nothing refers to any more,
\* which closes its sqlite3 connection; no code of the repository closes one,
\* so when this happens after the block is not up to the program
Collect(c) ==
    /\ pc[c] = "exited"
    /\ pc' = [pc EXCEPT ![c] = "free"]
    /\ open' = open \ {c}
    /\ last' = [NoLast EXCEPT !.conn = c, !.op = "collect"]
    /\ UNCHANGED <<disk, writer, pending, call>>

\* a request handler: the whole `with` block runs without yielding
Handle(c, op, kwargs, r, o) ==
    /\ pc[c] = "free"
    /\ SetStore(exit(r.st, c, o.raising))
    /\ pc' = [pc EXCEPT ![c] = "exited"]
    /\ open' = open \cup {c}
    /\ last' = [Called(c, op, kwargs, r) EXCEPT
                    !.calls = r.calls \o ExitCalls(o.raising),
                    !.key = PopValue(kwargs, "id", I(0))[2],
                    !.response = o.response]
    /\ UNCHANGED call

ListKw(table) == <<Kw("table", S(table))>>
ByIdKw(table, id) == <<Kw("table", S(table)), Kw("id", I(id))>>

\* the ids requests ask for: those a row can have, and one none has
RequestIds == 1..(MaxStored + 1)

get_users(c) ==
    \E fault \in BOOLEAN :
        LET r == select(St, c, ListKw("users"), fault)
        IN  Handle(c, "get_users", ListKw("users"), r, ListOutcome("users", r))

get_user(c) ==
    \E user_id \in RequestIds, fault \in BOOLEAN :
        LET kwargs == ByIdKw("users", user_id)
            r == select(St, c, kwargs, fault)
        IN  Handle(c, "get_user", kwargs, r, GetByIdOutcome("users", r))

get_passwords(c) ==
    \E fault \in BOOLEAN :
        LET r == select(St, c, ListKw("passwords"), fault)
        IN  Handle(c, "get_passwords", ListKw("passwords"), r,
                   ListOutcome("passwords", r))

get_password(c) ==
    \E password_id \in RequestIds, fault \in BOOLEAN :
        LET kwargs == ByIdKw("passwords", password_id)
            r == select(St, c, kwargs, fault)
        IN  Handle(c, "get_password", kwargs, r, GetByIdOutcome("passwords", r))

Next ==
    \E c \in Conns :
        \/ Enter(c)
        \/ Select(c)
        \/ Insert(c)
        \/ Update(c)
        \/ Delete(c)
        \/ Raise(c)
        \/ Exit(c)
        \/ Collect(c)
        \/ get_users(c)
        \/ get_user(c)
        \/ get_passwords(c)
        \/ get_password(c)

Spec == Init /\ [][Next]_vars

----------------------------------------------------------------------------
(* Single calls: one manager call made on connection Caller in any state    *)
(* of the store, kept with its arguments, the store before it and all it    *)
(* did; after an insert, the select of the row by the identifier returned.  *)

Caller == 1
Other == 2

SeedDisk ==
    [t \in Tables |-> IF t = "users" THEN {<<I(1), S("Alice"), S("a@x.com")>>}
                      ELSE {<<I(1), S("h1"), I(1)>>}]

\* no transaction open on any committed content, or one open (the caller's
\* or another connection's) with any content of its own
CallStores ==
    {[disk |-> d, writer |-> NoWriter, pending |-> d] : d \in InitialDisks}
    \cup {[disk |-> SeedDisk, writer |-> w,
           pending |-> [SeedDisk EXCEPT !["users"] = u]] :
            w \in {Caller, Other}, u \in Contents("users")}

CallInit ==
    /\ \E st \in CallStores :
        /\ disk = st.disk
        /\ writer = st.writer
        /\ pending = st.pending
        /\ pc = [c \in Conns |-> IF c \in {Caller, st.writer} THEN "block" ELSE "free"]
        /\ open = {c \in Conns : c \in {Caller, st.writer}}
    /\ last = NoLast
    /\ call = NoCall

DoCall(op, kwargs, fault, r) ==
    /\ call.op = "none"
    /\ InBounds(r.st, Ids)
    /\ SetStore(r.st)
    /\ call' = [op |-> op, kwargs |-> kwargs, fault |-> fault, before |-> St,
                r |-> r, follow |-> <<>>]
    /\ last' = Called(Caller, op, kwargs, r)
    /\ UNCHANGED <<pc, open>>

CallSelect ==
    \E kwargs \in SelectArgs, fault \in BOOLEAN :
        DoCall("select", kwargs, fault, select(St, Caller, kwargs, fault))

CallInsert ==
    \E kwargs \in InsertArgs, fault \in BOOLEAN :
        DoCall("insert", kwargs, fault, insert(St, Caller, kwargs, fault))

CallUpdate ==
    \E kwargs \in UpdateArgs, fault \in BOOLEAN :
        DoCall("update", kwargs, fault, update(St, Caller, kwargs, fault))

CallDelete ==
    \E kwargs \in DeleteArgs, fault \in BOOLEAN :
        DoCall("delete", kwargs, fault, delete(St, Caller, kwargs, fault))

\* select(table=<the table inserted into>, id=<the identifier insert returned>)
FollowKw(c) == <<Kw("table", PopValue(c.kwargs, "table", None)), Kw("id", c.r.value)>>

SelectInserted ==
    /\ call.op = "insert"
    /\ ~call.r.raised
    /\ call.follow = <<>>
    /\ LET r == select(St, Caller, FollowKw(call), FALSE)
       IN  /\ SetStore(r.st)
           /\ call' = [call EXCEPT !.follow = <<r>>]
           /\ last' = Called(Caller, "select", FollowKw(call), r)
    /\ UNCHANGED <<pc, open>>

CallNext == CallSelect \/ CallInsert \/ CallUpdate \/ CallDelete \/ SelectInserted

SpecCall == CallInit /\ [][CallNext]_vars

----------------------------------------------------------------------------
(* Statement building: update called with every ordered data mapping and    *)
(* every ordered filter mapping                                            *)

BuildArgs ==
    {<<Kw("table", S("users")), Kw("data", Dict(d))>> \o f :
        d \in OrdMaps("users", MaxKeys), f \in OrdMaps("users", MaxKeys)}

BuildInit ==
    /\ disk = SeedDisk
    /\ pending = disk
    /\ writer = NoWriter
    /\ pc = [c \in Conns |-> IF c = Caller THEN "block" ELSE "free"]
    /\ open = {Caller}
    /\ last = NoLast
    /\ call = NoCall

BuildUpdate ==
    \E kwargs \in BuildArgs :
        DoCall("update", kwargs, FALSE, update(St, Caller, kwargs, FALSE))

SpecBuild == BuildInit /\ [][BuildUpdate]_vars

----------------------------------------------------------------------------
(* Properties *)

Writes == {"insert", "update", "delete"}

CallTable == PopValue(call.kwargs, "table", None)
CallRest == Rest(call.op, call.kwargs)
CallData == PopValue(call.kwargs, "data", None)

\* the call reached no driver call and left the store as it was
Untouched == call.r.calls = <<>> /\ call.r.st = call.before

UnsafeError(op) ==
    IF op = "update" THEN ValueError("UPDATE without WHERE is not allowed")
    ELSE ValueError("DELETE without WHERE is not allowed")

\* C1 as stated: update or delete with no filter fails with the
\* unsafe-operation error whatever `table` is, before any statement is
\* executed and with the store and its pending transaction unchanged.
C1_UnsafeForEveryTable ==
    (call.op \in {"update", "delete"} /\ Len(CallRest) = 0)
        => /\ call.r.raised
           /\ call.r.err = UnsafeError(call.op)
           /\ Untouched

\* C1 amended: update or delete with no filter always fails with a validation
\* error before any statement is executed, store and pending transaction
\* unchanged; the error is the unsafe-operation error when `table` is
\* non-empty (and, for update, `data` is a non-empty dict), and otherwise the
\* error of the earlier check that failed (table, then data).
C1_UnsafeAfterEarlierChecks ==
    (call.op \in {"update", "delete"} /\ Len(CallRest) = 0)
        => /\ call.r.raised
           /\ Untouched
           /\ call.r.err =
                IF ~Truthy(CallTable) THEN ValueError("table is required")
                ELSE IF call.op = "update" /\ ~DataOk(call.kwargs)
                THEN ValueError("data (a dict) is required")
                ELSE UnsafeError(call.op)

C1_Witness ==
    /\ call.op = "update"
    /\ Len(CallRest) = 0
    /\ Truthy(CallTable)
    /\ DataOk(call.kwargs)
    /\ Dirty(call.before, Caller)
    /\ call.r.err = UnsafeError("update")

\* C2: leaving a block issues rollback then commit if the block raised and
\* only commit if it did not; commit is the last transaction action; the writes
\* pending when a block exits normally become the committed content and the
\* writes pending when a block raises do not.
C2_ExitRollsBackThenCommits ==
    [][\A c \in Conns :
        /\ (pc[c] \in {"block", "raising"} /\ pc'[c] = "exited")
            => /\ last'.calls = IF pc[c] = "raising" THEN <<"rollback", "commit">>
                                ELSE <<"commit">>
               /\ disk' = IF pc[c] = "raising" THEN disk ELSE View(St, c)
               /\ writer' # c
               /\ (writer = c => pending' = disk')
        /\ (pc[c] = "free" /\ pc'[c] = "exited")
            => /\ last'.calls[Len(last'.calls)] = "commit"
               /\ (last'.response.status # 200
                    => last'.calls[Len(last'.calls) - 1] = "rollback")
               /\ disk' = disk
      ]_vars

C2_Witness == last.op = "exit" /\ last.raised /\ last.dirty

\* C3: when the store rejects the statement of an insert, update or delete,
\* the call is one execute followed by a rollback of the connection, and the
\* error raised is the error the store gave for that statement.
C3_RollbackThenOriginalError ==
    (call.op \in Writes /\ call.r.storeErr # None)
        => /\ call.r.raised
           /\ call.r.err = Execute(call.before, Caller, call.r.query,
                                   call.r.params, call.fault).err
           /\ call.r.calls = <<"execute", "rollback">>
           /\ call.r.st.writer # Caller
           /\ call.r.st.disk = call.before.disk
           /\ View(call.r.st, Caller) = call.before.disk
           /\ (call.before.writer # Caller => call.r.st = call.before)

C3_Witness ==
    /\ call.op = "update"
    /\ call.r.storeErr # None
    /\ call.r.storeErr[1] = "IntegrityError"
    /\ Dirty(call.before, Caller)

\* C4 as stated: the connection a request (or block) opened is closed once
\* its scoped block has exited.
C4_ClosedAfterExit == \A c \in Conns : pc[c] = "exited" => ~IsOpen(c)

\* C5: insert with a table name and nothing else fails with a validation
\* error, makes no driver call (no statement, no rollback) and leaves the
\* store and its pending transaction unchanged.
C5_InsertWithoutData ==
    (call.op = "insert" /\ Truthy(CallTable) /\ Len(CallRest) = 0)
        => /\ call.r.raised
           /\ call.r.err[1] = "ValueError"
           /\ Untouched

C5_Witness ==
    /\ call.op = "insert"
    /\ Truthy(CallTable)
    /\ Len(CallRest) = 0
    /\ Dirty(call.before, Caller)
    /\ call.r.raised

\* C6: an insert the store accepts returns the identifier of the new row, and
\* the select of that identifier that follows on the same connection returns
\* exactly one row, which holds the inserted values in the inserted columns.
C6_InsertThenSelect ==
    (call.op = "insert" /\ ~call.r.raised)
        => LET t == CallTable[2]
               id == call.r.value
           IN  /\ id[1] = "int"
               /\ \A r \in View(call.before, Caller)[t] : r[1] # id
               /\ \E r \in View(call.r.st, Caller)[t] : r[1] = id
               /\ call.follow # <<>>
                    => LET f == call.follow[1]
                       IN  /\ ~f.raised
                           /\ Len(f.value) = 1
                           /\ f.value[1][1] = id
                           /\ \A i \in 1..Len(CallRest) :
                                f.value[1][ColIdx(t, CallRest[i][1])] = CallRest[i][2]

C6_Witness ==
    /\ call.op = "insert"
    /\ call.follow # <<>>
    /\ ~HasKey(call.kwargs, "id")
    /\ call.r.value = I(2)
    /\ Len(call.follow[1].value) = 1

\* the rows of the table a select call read that satisfy every filter
C7_Expected ==
    {r \in View(call.before, Caller)[CallTable[2]] :
        \A i \in 1..Len(CallRest) :
            r[ColIdx(CallTable[2], CallRest[i][1])] = CallRest[i][2]}

C7_Options == PopValue(call.kwargs, "options", DefaultOptions)[2]

C7_Valid ==
    /\ ~call.fault
    /\ Truthy(CallTable)
    /\ CallTable[2] \in Tables
    /\ \A i \in 1..Len(CallRest) : CallRest[i][1] \in Range(Columns(CallTable[2]))
    /\ Range(C7_Options) \subseteq Range(Columns(CallTable[2])) \cup {"*"}

\* C7: select returns exactly the rows of the table whose columns equal every
\* filter value (all rows when there is no filter), each projected on the
\* requested columns, and a well-formed select returns (an empty sequence on
\* an empty table) rather than raising.
C7_SelectIsConjunction ==
    call.op = "select"
        => /\ C7_Valid => ~call.r.raised
           /\ ~call.r.raised
                => /\ Len(call.r.value) = Cardinality(C7_Expected)
                   /\ Range(call.r.value) =
                        {Project(CallTable[2], C7_Options, r) : r \in C7_Expected}

C7_Witness ==
    /\ call.op = "select"
    /\ ~call.r.raised
    /\ Len(CallRest) = 2
    /\ Len(call.r.value) = 1
    /\ \E r \in View(call.before, Caller)["users"] :
        /\ r \notin C7_Expected
        /\ r[ColIdx("users", CallRest[1][1])] = CallRest[1][2]

\* C8: the parameters update binds are the values of data in data's key
\* order followed by the values of the filters in their key order, and the
\* i-th placeholder (SET clause, then WHERE clause) names the column whose
\* value is the i-th parameter.
C8_UpdateParameterOrder ==
    call.op = "update"
        => LET data == CallData[2]
               ph == Placeholders(call.r.query)
               ps == call.r.params
           IN  /\ Len(ps) = Len(data) + Len(CallRest)
               /\ Len(ph) = Len(ps)
               /\ Len(call.r.query.set) = Len(data)
               /\ \A i \in 1..Len(data) : ps[i] = data[i][2] /\ ph[i] = data[i][1]
               /\ \A j \in 1..Len(CallRest) :
                    /\ ps[Len(data) + j] = CallRest[j][2]
                    /\ ph[Len(data) + j] = CallRest[j][1]

C8_Witness ==
    /\ call.op = "update"
    /\ Keys(CallData[2]) = <<"name", "email">>
    /\ call.r.params = <<S("Bob"), S("a@x.com"), I(1)>>
    /\ call.r.value = I(1)

\* the rows of the handler's table with the id the request asked for
C9_Found ==
    {r \in disk[IF last.op = "get_user" THEN "users" ELSE "passwords"] :
        r[1] = I(last.key)}

\* C9: a get-by-id request answers 404 exactly when its select returned no
\* row, never when the store raised, and when the select finds the row it
\* answers 200 with the row's values mapped by position into the record.
C9_NotFoundIffEmpty ==
    last.op \in {"get_user", "get_password"}
        => /\ last.response.status = 404 <=> last.nrows = 0
           /\ last.storeErr # None => last.response.status # 404
           /\ last.nrows = 0 => C9_Found = {}
           /\ (C9_Found # {} /\ last.storeErr = None)
                => /\ last.response.status = 200
                   /\ \A r \in C9_Found :
                        last.response.body =
                            IF last.op = "get_user"
                            THEN [id |-> r[1], name |-> r[2], email |-> r[3]]
                            ELSE [id |-> r[1], password_hash |-> r[2],
                                  user_id |-> r[3]]

C9_Witness ==
    /\ last.op = "get_user"
    /\ last.response.status = 404
    /\ last.nrows = 0
    /\ disk["users"] # {}

\* C10: the rollback of a write the store rejects leaves the connection with
\* no transaction and the committed content as it was, discarding every
\* write the block had pending; and the normal exit of the block right after
\* such a call, the error caught, commits nothing.
C10_FailureDiscardsEarlierWrites ==
    [][\A c \in Conns :
        /\ (pc[c] = "block" /\ last'.conn = c /\ last'.op \in Writes
                /\ last'.storeErr # None)
            => /\ writer' # c
               /\ disk' = disk
               /\ (writer = c => pending' = disk)
        /\ (last.conn = c /\ last.op \in Writes /\ last.storeErr # None
                /\ pc[c] = "block" /\ pc'[c] = "exited")
            => disk' = disk
      ]_vars

C10_Witness ==
    /\ last.op \in Writes
    /\ last.storeErr # None
    /\ last.dirty
    /\ pc[last.conn] = "block"
    /\ writer = NoWriter
    /\ pending = disk

====
